---- MODULE Spec2Model ----
(***************************************************************************)
(* Model of the opencode "kilo-gateway-free" provider tools:               *)
(*   install.py, uninstall.py, remove_kilo_anonymous.py, and the filter    *)
(*   that sync_models.py shares with install.py.                           *)
(*                                                                         *)
(* JSON values are tagged records [t, v].  A Python str is a sequence of   *)
(* lexical tokens (<<"corethink", ":free">> is "corethink:free"), so that  *)
(* endswith, strip and lower are computed and not looked up.  A dict is a  *)
(* function whose domain is a set of such strings.                         *)
(***************************************************************************)
EXTENDS Integers, Sequences, FiniteSets, TLC

VARIABLES
    disk,           \* opencode.json: Absent, Invalid (not JSON) or a JSON value
    before,         \* opencode.json as it was when the last run started
    tool,           \* the script that ran last: "none", "install", "uninstall", "migrate"
    dry_run,        \* install: --dry-run was given
    fetch,          \* install: "offline", "failed", "ok" ("none" for the other tools)
    id_to_name,     \* install: the model map resolved by the last run (None if none)
    answer,         \* uninstall/migrate: what input() returned (None if not asked)
    outcome,        \* where the last run ended
    exitCode,       \* exit status of the last run
    opened,         \* the last run called open(config_path, "w")
    prevInstallMap, \* id_to_name of the run before the last, if that run was a persisting install
    mBase, mOverride, mResult,   \* deep_merge: its arguments and its result
    fModels, fResult             \* collect_free_models: its argument and its result

toolVars   == <<disk, before, tool, dry_run, fetch, id_to_name, answer, outcome,
                exitCode, opened, prevInstallMap>>
mergeVars  == <<mBase, mOverride, mResult>>
filterVars == <<fModels, fResult>>
vars       == <<toolVars, mergeVars, filterVars>>

---------------------------------------------------------------------------
(* JSON / Python values *)

Dict(f) == [t |-> "dict", v |-> f]
Str(s)  == [t |-> "str",  v |-> s]
Num(n)  == [t |-> "num",  v |-> n]
List(l) == [t |-> "list", v |-> l]
None    == [t |-> "none", v |-> <<>>]
Raise(e) == [t |-> "raise", v |-> <<e>>]

EmptyDict == [k \in {} |-> None]

isinstance_dict(x) == x.t = "dict"

\* d.get(key, default) on the content of a dict
Get(d, key, default) == IF key \in DOMAIN d THEN d[key] ELSE default

\* the dict d with d[key] = value assigned
Put(d, key, value) == [k \in DOMAIN d \cup {key} |-> IF k = key THEN value ELSE d[k]]

\* the dict d after del d[key]
Del(d, key) == [k \in DOMAIN d \ {key} |-> d[k]]

\* the state of a file that does not exist / that does not hold JSON
Absent  == [t |-> "absent",  v |-> <<>>]
Invalid == [t |-> "invalid", v |-> <<>>]

---------------------------------------------------------------------------
(* deep_merge, install.py *)

RECURSIVE deep_merge(_, _)
deep_merge_shallow(base, override) ==
    [key \in DOMAIN base \cup DOMAIN override |->
        IF key \in DOMAIN override THEN override[key] ELSE base[key]]

deep_merge(base, override) ==
    [key \in DOMAIN base \cup DOMAIN override |->
        IF key \in DOMAIN override
        THEN IF /\ key \in DOMAIN base
                /\ isinstance_dict(base[key])
                /\ isinstance_dict(override[key])
             THEN Dict(deep_merge(base[key].v, override[key].v))
             ELSE override[key]
        ELSE base[key]]

---------------------------------------------------------------------------
(* Inputs of deep_merge: every nested mapping over MergeKeys with at most  *)
(* MaxEntries key/value entries in all, leaves drawn from MergeLeaves.     *)

MaxEntries == 2
MergeKeys == {<<"a">>, <<"b">>}
MergeLeaves == {Num(1), Num(2), List(<<Num(1)>>)}

RECURSIVE Entries(_), SumEntries(_, _)
Entries(x) ==
    IF isinstance_dict(x) THEN Cardinality(DOMAIN x.v) + SumEntries(x.v, DOMAIN x.v) ELSE 0
SumEntries(d, S) ==
    IF S = {} THEN 0
    ELSE LET k == CHOOSE k \in S : TRUE IN Entries(d[k]) + SumEntries(d, S \ {k})

RECURSIVE MergeDicts(_)
MergeValues(n) == MergeLeaves \cup {Dict(d) : d \in MergeDicts(n)}
MergeDicts(n) ==
    {EmptyDict} \cup
    UNION { {d \in [S -> MergeValues(n - Cardinality(S))] : Entries(Dict(d)) <= n} :
            S \in {T \in SUBSET MergeKeys : T # {} /\ Cardinality(T) <= n} }

---------------------------------------------------------------------------
(* Python str operations on token sequences *)

Whitespace == {" ", "\t", "\n"}

RECURSIVE lstrip(_)
lstrip(s) == IF s # <<>> /\ Head(s) \in Whitespace THEN lstrip(Tail(s)) ELSE s

RECURSIVE rstrip(_)
rstrip(s) ==
    IF s # <<>> /\ s[Len(s)] \in Whitespace THEN rstrip(SubSeq(s, 1, Len(s) - 1)) ELSE s

strip(s) == rstrip(lstrip(s))

lower(s) == [i \in 1..Len(s) |-> IF s[i] = "Y" THEN "y" ELSE IF s[i] = "N" THEN "n" ELSE s[i]]

endswith(s, suffix) ==
    /\ Len(s) >= Len(suffix)
    /\ SubSeq(s, Len(s) - Len(suffix) + 1, Len(s)) = suffix

\* str(x) for the values a catalogue record holds
PyStr(x) == IF x.t = "str" THEN x.v ELSE IF x.t = "num" THEN <<ToString(x.v)>> ELSE <<"None">>

---------------------------------------------------------------------------
(* Model tables and the free-model filter, install.py (and its copy in     *)
(* sync_models.py)                                                         *)

PROVIDER_KEY == <<"kilo-gateway-free">>
OLD_KEY      == <<"kilo-anonymous">>

MANUAL_MODELS ==
    (<<"giga-potato">> :> <<"Giga Potato (free)">>) @@
    (<<"giga-potato-thinking">> :> <<"Giga Potato Thinking (free)">>)

FALLBACK_MODELS ==
    (<<"arcee-ai/trinity-large-preview", ":free">> :> <<"Arcee AI: Trinity Large Preview (free)">>) @@
    (<<"corethink", ":free">> :> <<"CoreThink (free)">>) @@
    (<<"giga-potato">> :> <<"Giga Potato (free)">>) @@
    (<<"giga-potato-thinking">> :> <<"Giga Potato Thinking (free)">>) @@
    (<<"minimax/minimax-m2.5", ":free">> :> <<"MiniMax: MiniMax M2.5 (free)">>) @@
    (<<"openrouter/free">> :> <<"Free Models Router (free)">>) @@
    (<<"qwen/qwen3-235b-a22b-thinking-2507">> :> <<"Qwen: Qwen3 235B A22B Thinking 2507">>) @@
    (<<"qwen/qwen3-vl-235b-a22b-thinking">> :> <<"Qwen: Qwen3 VL 235B A22B Thinking">>) @@
    (<<"qwen/qwen3-vl-30b-a3b-thinking">> :> <<"Qwen: Qwen3 VL 30B A3B Thinking">>) @@
    (<<"stepfun/step-3.5-flash", ":free">> :> <<"StepFun: Step 3.5 Flash (free)">>) @@
    (<<"z-ai/glm-5", ":free">> :> <<"Z.ai: GLM 5 (free)">>)

\* m is the content of one catalogue record
is_free_by_suffix(m) == endswith(PyStr(Get(m, <<"id">>, Str(<<>>))), <<":free">>)

is_free_by_pricing_either(m) ==
    LET p == Get(m, <<"pricing">>, Dict(EmptyDict)).v
    IN  \/ strip(PyStr(Get(p, <<"prompt">>, Str(<<>>)))) \in {<<"0">>, <<"0.0">>}
        \/ strip(PyStr(Get(p, <<"completion">>, Str(<<>>)))) \in {<<"0">>, <<"0.0">>}

is_free_by_pricing(m) ==
    LET p == Get(m, <<"pricing">>, Dict(EmptyDict)).v
    IN  /\ strip(PyStr(Get(p, <<"prompt">>, Str(<<>>)))) \in {<<"0">>, <<"0.0">>}
        /\ strip(PyStr(Get(p, <<"completion">>, Str(<<>>)))) \in {<<"0">>, <<"0.0">>}

\* for m in list: results[m["id"]] = m.get("name", m["id"]); m["id"] raises
\* KeyError on a record without an id
RECURSIVE AddRecords(_, _)
AddRecords(results, list) ==
    IF list = <<>> THEN Dict(results)
    ELSE LET m == Head(list).v
         IN  IF <<"id">> \notin DOMAIN m THEN Raise("KeyError")
             ELSE AddRecords(Put(results, m[<<"id">>].v, Get(m, <<"name">>, m[<<"id">>]).v),
                             Tail(list))

\* for mid, name in MANUAL_MODELS.items(): results[mid] = name
AddManual(results) ==
    [mid \in DOMAIN results \cup DOMAIN MANUAL_MODELS |->
        IF mid \in DOMAIN MANUAL_MODELS THEN MANUAL_MODELS[mid] ELSE results[mid]]

\* Dict(id -> display name), or Raise("KeyError")
collect_free_models(models) ==
    LET by_suffix  == SelectSeq(models, LAMBDA m : is_free_by_suffix(m.v))
        by_pricing == SelectSeq(models, LAMBDA m : is_free_by_pricing(m.v))
        results    == AddRecords(EmptyDict, by_suffix \o by_pricing)
    IN  IF results.t = "raise" THEN results ELSE Dict(AddManual(results.v))

build_model_entries(names) ==
    [mid \in DOMAIN names |-> Dict(<<"name">> :> Str(names[mid]))]

---------------------------------------------------------------------------
(* Inputs of collect_free_models: catalogues of at most MaxCatalogue       *)
(* records with catalogue-unique ids.                                      *)

MaxCatalogue == 2

RecordIds == {Str(<<"a", ":free">>), Str(<<"b">>), Str(<<"giga-potato">>), None}
RecordNames == {Str(<<"Some Name">>), Str(<<>>), None}
RecordPricings ==
    { None,
      Dict((<<"prompt">> :> Str(<<"0">>)) @@ (<<"completion">> :> Str(<<"0">>))),
      Dict((<<"prompt">> :> Str(<<" ", "0.0", " ">>)) @@ (<<"completion">> :> Num(0))),
      Dict(<<"prompt">> :> Str(<<"0">>)),
      Dict((<<"prompt">> :> Str(<<"0">>)) @@ (<<"completion">> :> Str(<<"0.00">>))) }

\* a record: the fields whose value is None are left out
Record(id, name, pricing) ==
    LET all == (<<"id">> :> id) @@ (<<"name">> :> name) @@ (<<"pricing">> :> pricing)
    IN  Dict([k \in {k \in DOMAIN all : all[k] # None} |-> all[k]])

Records == {Record(i, n, p) : i \in RecordIds, n \in RecordNames, p \in RecordPricings}

Catalogues(n) ==
    UNION { {c \in [1..k -> Records] :
                \A i, j \in 1..k :
                    i # j => Get(c[i].v, <<"id">>, None) # Get(c[j].v, <<"id">>, None)} :
            k \in 0..n }

---------------------------------------------------------------------------
(* install.py main: the steps of one run *)

SCHEMA_URL == Str(<<"https://opencode.ai/config.json">>)

\* lines 139-148: offline, or a failed fetch (raw = None), use FALLBACK_MODELS
resolve_models(offline, raw) ==
    IF offline \/ raw = None THEN Dict(FALLBACK_MODELS) ELSE collect_free_models(raw.v)

\* lines 168-178: the document the run starts from, or Raise when the file
\* exists and cannot be read for a reason other than invalid JSON
load_existing(file, readOk) ==
    IF file = Absent THEN Dict(EmptyDict)
    ELSE IF ~readOk THEN Raise("OSError")
    ELSE IF file = Invalid THEN Dict(EmptyDict)
    ELSE file

\* lines 180-181
with_schema_always(existing) == Put(existing, <<"$schema">>, SCHEMA_URL)

with_schema(existing) ==
    IF <<"$schema">> \notin DOMAIN existing
    THEN Put(existing, <<"$schema">>, SCHEMA_URL)
    ELSE existing

\* lines 185-194: the update fragment of the provider
provider_defaults(model_entries) ==
    (<<"npm">> :> Str(<<"@ai-sdk/openai-compatible">>)) @@
    (<<"name">> :> Str(<<"Kilo Gateway Free">>)) @@
    (<<"options">> :> Dict(
        (<<"baseURL">> :> Str(<<"https://api.kilo.ai/api/openrouter/">>)) @@
        (<<"apiKey">> :> Str(<<"anonymous">>)) @@
        (<<"headers">> :> Dict(<<"User-Agent">> :> Str(<<"opencode-kilo-provider">>))))) @@
    (<<"models">> :> Dict(model_entries))

provider_update_decorated(existing_provider, model_entries) ==
    LET old == Get(existing_provider, <<"name">>, Str(<<"Kilo Gateway Free">>))
        new == IF old.t = "str" THEN Str(old.v \o <<" [Kilo Free]">>) ELSE old
    IN  Put(deep_merge(existing_provider, provider_defaults(model_entries)), <<"name">>, new)

provider_update(existing_provider, model_entries) ==
    deep_merge(existing_provider, provider_defaults(model_entries))

merge_config_replace(loaded, model_entries) ==
    IF ~isinstance_dict(loaded) THEN Raise("TypeError")
    ELSE LET existing == with_schema(loaded.v)
             provider == Get(existing, <<"provider">>, Dict(EmptyDict))
         IN  IF ~isinstance_dict(provider) THEN Raise("AttributeError")
             ELSE LET existing_provider == Get(provider.v, PROVIDER_KEY, Dict(EmptyDict))
                  IN  IF ~isinstance_dict(existing_provider) THEN Raise("AttributeError")
                      ELSE Dict(Put(existing, <<"provider">>, Dict(PROVIDER_KEY :>
                                  Dict(provider_update(existing_provider.v, model_entries)))))

\* lines 180-196 on a loaded JSON value: Dict(merged), or Raise where Python
\* raises TypeError/AttributeError on a value that is not a dict
merge_config(loaded, model_entries) ==
    IF ~isinstance_dict(loaded) THEN Raise("TypeError")
    ELSE LET existing == with_schema(loaded.v)
             provider == Get(existing, <<"provider">>, Dict(EmptyDict))
         IN  IF ~isinstance_dict(provider) THEN Raise("AttributeError")
             ELSE LET existing_provider == Get(provider.v, PROVIDER_KEY, Dict(EmptyDict))
                  IN  IF ~isinstance_dict(existing_provider) THEN Raise("AttributeError")
                      ELSE Dict(deep_merge(existing,
                              <<"provider">> :> Dict(PROVIDER_KEY :>
                                  Dict(provider_update(existing_provider.v, model_entries)))))

\* lines 198-206 (and the same lines of the removal scripts): open(path, "w")
\* fails and leaves the file, or json.dump fails after the file was
\* truncated, or the document is written
WriteOutcomes == {"ok", "open_failed", "dump_failed"}
written(file, doc, w) ==
    IF w = "ok" THEN doc ELSE IF w = "open_failed" THEN file ELSE Invalid

\* one run of install.py: where it ends, its exit status and the file after it
install_main(file, dry, offline, raw, readOk, w) ==
    LET names == resolve_models(offline, raw)
        end(o, code, f, op) ==
            [outcome |-> o, exitCode |-> code, disk |-> f, opened |-> op, id_to_name |-> names]
    IN  IF names.t = "raise" THEN end("crash", 1, file, FALSE)
        ELSE IF dry THEN end("dry_run", 0, file, FALSE)
        ELSE LET loaded == load_existing(file, readOk)
             IN  IF loaded.t = "raise" THEN end("read_error", 1, file, FALSE)
                 ELSE LET merged == merge_config(loaded, build_model_entries(names.v))
                      IN  IF merged.t = "raise" THEN end("crash", 1, file, FALSE)
                          ELSE IF w = "ok" THEN end("persisted", 0, written(file, merged, w), TRUE)
                          ELSE end("write_failed", 1, written(file, merged, w), TRUE)

---------------------------------------------------------------------------
(* uninstall.py main and remove_kilo_anonymous.py main: the same steps on  *)
(* PROVIDER_KEY and on OLD_KEY                                             *)

EOF == Raise("EOFError")

affirmative_prefix(confirm) ==
    LET c == lower(strip(confirm)) IN c # <<>> /\ Head(c) = "y"

\* confirm.strip().lower() == "y"
affirmative(confirm) == lower(strip(confirm)) = <<"y">>

\* del providers[key]; if not providers: del config["provider"]
remove_key_only(config, key) ==
    Put(config, <<"provider">>, Dict(Del(config[<<"provider">>].v, key)))

remove_key(config, key) ==
    LET providers == Del(config[<<"provider">>].v, key)
    IN  IF DOMAIN providers = {}
        THEN Del(config, <<"provider">>)
        ELSE Put(config, <<"provider">>, Dict(providers))

remove_main(file, key, readOk, confirm, w) ==
    LET end(o, code, f, op, a) ==
            [outcome |-> o, exitCode |-> code, disk |-> f, opened |-> op, answer |-> a]
    IN  IF file = Absent THEN end("no_file", 0, file, FALSE, None)
        ELSE IF ~readOk THEN end("read_error", 1, file, FALSE, None)
        ELSE IF file = Invalid THEN end("invalid_json", 1, file, FALSE, None)
        ELSE IF ~isinstance_dict(file) THEN end("crash", 1, file, FALSE, None)
        ELSE LET providers == Get(file.v, <<"provider">>, Dict(EmptyDict))
             IN  IF ~isinstance_dict(providers) THEN end("crash", 1, file, FALSE, None)
                 ELSE IF key \notin DOMAIN providers.v THEN end("not_found", 0, file, FALSE, None)
                 ELSE IF confirm = EOF THEN end("crash", 1, file, FALSE, confirm)
                 ELSE IF ~affirmative(confirm.v) THEN end("aborted", 0, file, FALSE, confirm)
                 ELSE LET config == Dict(remove_key(file.v, key))
                      IN  IF w = "ok"
                          THEN end("persisted", 0, written(file, config, w), TRUE, confirm)
                          ELSE end("write_failed", 1, written(file, config, w), TRUE, confirm)

---------------------------------------------------------------------------
(* The documents opencode.json may hold when a tool starts.  A field whose *)
(* value is None is left out of its mapping.                               *)

Fields(all) == [k \in {k \in DOMAIN all : all[k] # None} |-> all[k]]

MaxStale == 1
StaleIds == {<<"old/model", ":free">>, <<"giga-potato">>}

\* a provider entry the user has edited: a field of their own, custom
\* options and headers, and the models of an earlier install
HeaderVariants ==
    { Num(1),
      Dict((<<"User-Agent">> :> Str(<<"my-agent">>)) @@ (<<"X-Custom">> :> Str(<<"1">>))) }

OptionsVariants ==
    {None, Num(1)} \cup
    { Dict((<<"timeout">> :> Num(30)) @@ (<<"headers">> :> h)) : h \in HeaderVariants }

ModelsVariants ==
    {List(<<>>)} \cup
    { Dict([mid \in S |-> Dict(<<"name">> :> Str(<<"Old name">>))]) :
        S \in {T \in SUBSET StaleIds : Cardinality(T) <= MaxStale} }

EntryVariants ==
    {None, Num(1)} \cup
    { Dict(Fields((<<"note">> :> Str(<<"mine">>)) @@ (<<"options">> :> o) @@ (<<"models">> :> m))) :
        o \in OptionsVariants, m \in ModelsVariants }

OtherProvider == Dict(<<"npm">> :> Str(<<"@ai-sdk/other">>))
FullEntry == Dict((<<"npm">> :> Str(<<"@ai-sdk/openai-compatible">>)) @@ (<<"models">> :> Dict(EmptyDict)))

Providers(e, old, sib) ==
    Dict(Fields((PROVIDER_KEY :> e) @@ (OLD_KEY :> old) @@ (<<"openai">> :> sib)))

TopVariants ==
    { EmptyDict,
      (<<"other">> :> Dict(<<"x">> :> Num(1))) @@ (<<"$schema">> :> Str(<<"https://example.org/my.json">>)) }

Document(top, p) == Dict(Fields(top @@ (<<"provider">> :> p)))

Documents ==
    \* every provider entry, beside another provider
    { Document(top, Providers(e, None, OtherProvider)) : top \in TopVariants, e \in EntryVariants }
    \cup
    \* the entry and the legacy entry, alone or beside other providers
    { Document(EmptyDict, Providers(e, old, sib)) :
        e \in {None, FullEntry}, old \in {None, OtherProvider}, sib \in {None, OtherProvider} }
    \cup
    \* no provider block, or one that is not a mapping
    { Document(top, p) : top \in TopVariants, p \in {None, Num(1)} }

Files == {Absent, Invalid, List(<<>>)} \cup Documents

\* what the fetch returns: None (failure) or the list under "data"
FetchedCatalogues ==
    { List(<< Record(Str(<<"a", ":free">>), Str(<<"A">>), None),
              Record(Str(<<"b">>), None,
                     Dict((<<"prompt">> :> Str(<<"1">>)) @@ (<<"completion">> :> Str(<<"0">>)))) >>),
      List(<< Record(None, Str(<<"Anonymous">>),
                     Dict((<<"prompt">> :> Str(<<"0">>)) @@ (<<"completion">> :> Str(<<"0">>)))) >>) }

\* what input() returns, or EOF
Answers ==
    { Str(<<"y">>), Str(<<" ", "Y", "\n">>), Str(<<"y", "e", "s">>), Str(<<"n">>), EOF }

---------------------------------------------------------------------------
IdleTools ==
    /\ disk = Absent /\ before = Absent /\ tool = "none" /\ dry_run = FALSE
    /\ fetch = "none" /\ id_to_name = None /\ answer = None /\ outcome = "none"
    /\ exitCode = 0 /\ opened = FALSE /\ prevInstallMap = None

IdleMerge  == mBase = None /\ mOverride = None /\ mResult = None
IdleFilter == fModels = None /\ fResult = None

(* deep_merge applied to every pair of bounded nested mappings *)
InitMerge ==
    /\ mBase \in {Dict(d) : d \in MergeDicts(MaxEntries)}
    /\ mOverride \in {Dict(d) : d \in MergeDicts(MaxEntries)}
    /\ mResult = None
    /\ IdleTools /\ IdleFilter

Merge ==
    /\ mResult = None
    /\ mResult' = Dict(deep_merge(mBase.v, mOverride.v))
    /\ UNCHANGED <<mBase, mOverride, toolVars, filterVars>>

NextMerge == Merge
SpecMerge == InitMerge /\ [][NextMerge]_vars

(* collect_free_models applied to every bounded catalogue *)
InitFilter ==
    /\ fModels \in Catalogues(MaxCatalogue)
    /\ fResult = None
    /\ IdleTools /\ IdleMerge

Filter ==
    /\ fResult = None
    /\ fResult' = collect_free_models(fModels)
    /\ UNCHANGED <<fModels, toolVars, mergeVars>>

NextFilter == Filter
SpecFilter == InitFilter /\ [][NextFilter]_vars

---------------------------------------------------------------------------
(* The tools run one after another on the same opencode.json *)

Init ==
    /\ disk \in Files
    /\ before = disk
    /\ tool = "none" /\ dry_run = FALSE /\ fetch = "none" /\ id_to_name = None
    /\ answer = None /\ outcome = "none" /\ exitCode = 0 /\ opened = FALSE
    /\ prevInstallMap = None
    /\ IdleMerge /\ IdleFilter

\* id_to_name of the run that just ended, if it was an install that persisted
LastInstallMap == IF tool = "install" /\ outcome = "persisted" THEN id_to_name ELSE None

Install ==
    \E dry \in BOOLEAN, offline \in BOOLEAN, raw \in FetchedCatalogues \cup {None},
       readOk \in BOOLEAN, w \in WriteOutcomes :
        LET r == install_main(disk, dry, offline, raw, readOk, w)
        IN  \* an input the run never consults is held at one value
            /\ offline => raw = None
            /\ dry => readOk
            /\ ~readOk => w = "ok"
            /\ tool' = "install"
            /\ before' = disk
            /\ dry_run' = dry
            /\ fetch' = IF offline THEN "offline" ELSE IF raw = None THEN "failed" ELSE "ok"
            /\ id_to_name' = r.id_to_name
            /\ answer' = None
            /\ outcome' = r.outcome
            /\ exitCode' = r.exitCode
            /\ opened' = r.opened
            /\ disk' = r.disk
            /\ prevInstallMap' = LastInstallMap
            /\ UNCHANGED <<mergeVars, filterVars>>

Remove(name, key) ==
    \E readOk \in BOOLEAN, confirm \in Answers, w \in WriteOutcomes :
        LET r == remove_main(disk, key, readOk, confirm, w)
        IN  \* an input the run never consults is held at one value
            /\ ~readOk => w = "ok" /\ confirm = EOF
            /\ tool' = name
            /\ before' = disk
            /\ dry_run' = FALSE
            /\ fetch' = "none"
            /\ id_to_name' = None
            /\ answer' = r.answer
            /\ outcome' = r.outcome
            /\ exitCode' = r.exitCode
            /\ opened' = r.opened
            /\ disk' = r.disk
            /\ prevInstallMap' = LastInstallMap
            /\ UNCHANGED <<mergeVars, filterVars>>

Uninstall == Remove("uninstall", PROVIDER_KEY)
Migrate   == Remove("migrate", OLD_KEY)

Next == Install \/ Uninstall \/ Migrate
Spec == Init /\ [][Next]_vars

---------------------------------------------------------------------------
(* Properties *)

K_PROVIDER == <<"provider">>
K_MODELS   == <<"models">>
K_OPTIONS  == <<"options">>
K_HEADERS  == <<"headers">>

\* key k holds in mapping new what it held in mapping old
Kept(new, old, k) == k \in DOMAIN new /\ new[k] = old[k]

InstallPersisted == tool = "install" /\ outcome = "persisted"
Removal          == tool \in {"uninstall", "migrate"}
TargetKey        == IF tool = "uninstall" THEN PROVIDER_KEY ELSE OLD_KEY

\* the provider block and the owned entry of a document (empty when absent)
ProvidersOf(doc) == Get(doc.v, K_PROVIDER, Dict(EmptyDict))
EntryOf(doc)     == Get(ProvidersOf(doc).v, PROVIDER_KEY, Dict(EmptyDict))

(* C1: after an install that persists, the keys of                         *)
(* provider.kilo-gateway-free.models in the persisted document are exactly *)
(* the keys of the model map the run resolved: a model id that was in the  *)
(* file before and is not in the fresh map is gone.                        *)
C1_ModelsAreTheFreshMap ==
    InstallPersisted =>
        DOMAIN EntryOf(disk).v[K_MODELS].v = DOMAIN id_to_name.v

(* C2: when install persists, every key of the loaded document that the    *)
(* update fragment does not set is in the persisted document with the same *)
(* value: top-level keys other than provider, sibling providers, and the   *)
(* user's own fields of the entry, of its options and of its headers.      *)
C2_UnsetKeysKept ==
    (InstallPersisted /\ isinstance_dict(before)) =>
        LET bp == ProvidersOf(before)   dp == ProvidersOf(disk)
            be == EntryOf(before)       de == EntryOf(disk)
            bo == Get(be.v, K_OPTIONS, Dict(EmptyDict))
            do == Get(de.v, K_OPTIONS, Dict(EmptyDict))
        IN  /\ \A k \in DOMAIN before.v \ {K_PROVIDER} : Kept(disk.v, before.v, k)
            /\ \A k \in DOMAIN bp.v \ {PROVIDER_KEY} : Kept(dp.v, bp.v, k)
            /\ \A k \in DOMAIN be.v \ {<<"npm">>, <<"name">>, K_OPTIONS, K_MODELS} :
                    Kept(de.v, be.v, k)
            /\ isinstance_dict(bo) =>
                /\ \A k \in DOMAIN bo.v \ {<<"baseURL">>, <<"apiKey">>, K_HEADERS} :
                        Kept(do.v, bo.v, k)
                /\ (K_HEADERS \in DOMAIN bo.v /\ isinstance_dict(bo.v[K_HEADERS])) =>
                        \A k \in DOMAIN bo.v[K_HEADERS].v \ {<<"User-Agent">>} :
                            Kept(do.v[K_HEADERS].v, bo.v[K_HEADERS].v, k)

C2_Witness ==
    /\ InstallPersisted /\ isinstance_dict(before)
    /\ <<"other">> \in DOMAIN before.v
    /\ <<"openai">> \in DOMAIN ProvidersOf(before).v
    /\ <<"note">> \in DOMAIN EntryOf(before).v
    /\ K_OPTIONS \in DOMAIN EntryOf(before).v
    /\ isinstance_dict(EntryOf(before).v[K_OPTIONS])
    /\ isinstance_dict(EntryOf(before).v[K_OPTIONS].v[K_HEADERS])
    /\ <<"X-Custom">> \in DOMAIN EntryOf(disk).v[K_OPTIONS].v[K_HEADERS].v
    /\ <<"timeout">> \in DOMAIN EntryOf(disk).v[K_OPTIONS].v

\* outside provider.kilo-gateway-free, apart from the keys in `added`, the
\* persisted document is the loaded one
SameOutsideEntry(added) ==
    LET bp == ProvidersOf(before)   dp == ProvidersOf(disk)
    IN  /\ DOMAIN disk.v \ ({K_PROVIDER} \cup added) = DOMAIN before.v \ ({K_PROVIDER} \cup added)
        /\ \A k \in DOMAIN before.v \ {K_PROVIDER} : Kept(disk.v, before.v, k)
        /\ DOMAIN dp.v \ {PROVIDER_KEY} = DOMAIN bp.v \ {PROVIDER_KEY}
        /\ \A k \in DOMAIN bp.v \ {PROVIDER_KEY} : Kept(dp.v, bp.v, k)

(* C3, as claimed: the document install persists differs from the loaded   *)
(* document only inside provider.kilo-gateway-free; no key outside that    *)
(* path is added, removed or changed.                                      *)
C3_OnlyOwnedSubtree ==
    (InstallPersisted /\ isinstance_dict(before)) => SameOutsideEntry({})

(* C3, amended: the document install persists differs from the loaded      *)
(* document only inside provider.kilo-gateway-free, and in the top-level   *)
(* key $schema, which is added with the opencode schema URL when the       *)
(* loaded document has none.                                               *)
C3_OnlyOwnedSubtreeAndSchema ==
    (InstallPersisted /\ isinstance_dict(before)) =>
        /\ SameOutsideEntry({<<"$schema">>})
        /\ <<"$schema">> \in DOMAIN disk.v
        /\ <<"$schema">> \notin DOMAIN before.v => disk.v[<<"$schema">>] = SCHEMA_URL

C3_Witness ==
    /\ InstallPersisted /\ isinstance_dict(before)
    /\ <<"$schema">> \in DOMAIN before.v
    /\ <<"other">> \in DOMAIN before.v
    /\ <<"openai">> \in DOMAIN ProvidersOf(before).v
    /\ EntryOf(disk) # EntryOf(before)

\* the string s, as Python's str, with whitespace at both ends removed is z
TrimsTo(s, z) ==
    \E i \in 1..Len(s) + 1, j \in 0..Len(s) :
        /\ SubSeq(s, i, j) = z
        /\ \A n \in 1..Len(s) : (n < i \/ n > j) => s[n] \in Whitespace

RuleSuffix(m) ==
    /\ <<"id">> \in DOMAIN m
    /\ m[<<"id">>].v # <<>>
    /\ m[<<"id">>].v[Len(m[<<"id">>].v)] = ":free"

RuleZeroPricing(m) ==
    /\ <<"pricing">> \in DOMAIN m
    /\ \A f \in {<<"prompt">>, <<"completion">>} :
        /\ f \in DOMAIN m[<<"pricing">>].v
        /\ \/ TrimsTo(PyStr(m[<<"pricing">>].v[f]), <<"0">>)
           \/ TrimsTo(PyStr(m[<<"pricing">>].v[f]), <<"0.0">>)

FreeRecords == {i \in 1..Len(fModels) : RuleSuffix(fModels[i].v) \/ RuleZeroPricing(fModels[i].v)}

(* C4: the keys collect_free_models returns are the ids of the records     *)
(* whose id ends in ":free" or whose pricing.prompt and pricing.completion *)
(* both trim to "0" or "0.0", with the keys of MANUAL_MODELS; a record     *)
(* without pricing fields and without the suffix is there only as a manual *)
(* key; every manual id maps to its manual name.                           *)
C4_FilterKeys ==
    fResult.t = "dict" =>
        /\ DOMAIN fResult.v =
              {fModels[i].v[<<"id">>].v : i \in FreeRecords} \cup DOMAIN MANUAL_MODELS
        /\ \A i \in 1..Len(fModels) :
              LET m == fModels[i].v
              IN  (/\ <<"id">> \in DOMAIN m
                   /\ <<"pricing">> \notin DOMAIN m
                   /\ ~RuleSuffix(m)
                   /\ m[<<"id">>].v \in DOMAIN fResult.v) => m[<<"id">>].v \in DOMAIN MANUAL_MODELS
        /\ \A mid \in DOMAIN MANUAL_MODELS : fResult.v[mid] = MANUAL_MODELS[mid]

C4_Witness ==
    /\ fResult.t = "dict"
    /\ \E i, j \in 1..Len(fModels) :
        /\ fModels[i].v = Record(Str(<<"giga-potato">>), Str(<<"Some Name">>), None).v
        /\ RuleZeroPricing(fModels[j].v) /\ ~RuleSuffix(fModels[j].v)
        /\ fModels[j].v[<<"id">>] = Str(<<"b">>)
    /\ DOMAIN fResult.v = {<<"b">>} \cup DOMAIN MANUAL_MODELS

(* C5: for every record that satisfies the suffix rule or the zero-pricing *)
(* rule and whose id is not a manual key, the filtered map holds the       *)
(* record's name, or the id itself when the name is absent or empty.       *)
C5_NameOrId ==
    fResult.t = "dict" =>
        \A i \in FreeRecords :
            LET m == fModels[i].v   id == m[<<"id">>].v
            IN  id \notin DOMAIN MANUAL_MODELS =>
                    fResult.v[id] =
                        IF <<"name">> \notin DOMAIN m \/ m[<<"name">>].v = <<>>
                        THEN id ELSE m[<<"name">>].v

\* r is the merge of override o into base b
RECURSIVE IsMergeOf(_, _, _)
IsMergeOf(r, b, o) ==
    /\ DOMAIN r = DOMAIN b \cup DOMAIN o
    /\ \A k \in DOMAIN b \ DOMAIN o : r[k] = b[k]
    /\ \A k \in DOMAIN o :
        IF k \in DOMAIN b /\ b[k].t = "dict" /\ o[k].t = "dict"
        THEN r[k].t = "dict" /\ IsMergeOf(r[k].v, b[k].v, o[k].v)
        ELSE r[k] = o[k]

(* C6: deep_merge(base, override) has the keys of base and of override; a  *)
(* key only in base keeps base's value; a key of override whose value and  *)
(* base's value are both mappings holds their recursive merge; every       *)
(* other key of override holds override's value wholesale.                 *)
C6_DeepMerge ==
    mResult # None => IsMergeOf(mResult.v, mBase.v, mOverride.v)

C6_Witness ==
    /\ mResult # None
    /\ \E k \in MergeKeys :
        /\ k \in DOMAIN mBase.v /\ k \in DOMAIN mOverride.v
        /\ mBase.v[k].t = "dict" /\ mOverride.v[k].t = "dict"
        /\ DOMAIN mBase.v[k].v \ DOMAIN mOverride.v[k].v # {}
        /\ DOMAIN mOverride.v[k].v \ DOMAIN mBase.v[k].v # {}
        /\ DOMAIN mResult.v[k].v = MergeKeys

RemovalPersisted == Removal /\ outcome = "persisted"

(* C7: in uninstall and in the migration script, when the file parses, the *)
(* target key is under provider and the user confirms, the persisted       *)
(* document is the loaded one with the target key deleted from provider,   *)
(* with provider deleted too exactly when the target was its only entry,   *)
(* and with every other key unchanged.                                     *)
C7_RemovalResult ==
    RemovalPersisted =>
        LET bp == before.v[K_PROVIDER].v
        IN  /\ DOMAIN disk.v \ {K_PROVIDER} = DOMAIN before.v \ {K_PROVIDER}
            /\ \A k \in DOMAIN before.v \ {K_PROVIDER} : disk.v[k] = before.v[k]
            /\ K_PROVIDER \notin DOMAIN disk.v <=> DOMAIN bp = {TargetKey}
            /\ K_PROVIDER \in DOMAIN disk.v =>
                /\ DOMAIN disk.v[K_PROVIDER].v = DOMAIN bp \ {TargetKey}
                /\ \A k \in DOMAIN bp \ {TargetKey} : disk.v[K_PROVIDER].v[k] = bp[k]

C7_Witness ==
    /\ RemovalPersisted /\ tool = "uninstall"
    /\ DOMAIN before.v[K_PROVIDER].v = {PROVIDER_KEY}
    /\ K_PROVIDER \notin DOMAIN disk.v
    /\ DOMAIN disk.v # {}

\* the answer is "y" or "Y" between whitespace
Affirmative(a) ==
    \E i \in 1..Len(a) :
        /\ a[i] \in {"y", "Y"}
        /\ \A j \in 1..Len(a) : j # i => a[j] \in Whitespace

\* the run loaded a document whose provider block, if any, is a mapping
\* without the target key
TargetAbsent ==
    /\ outcome # "read_error"
    /\ isinstance_dict(before)
    /\ isinstance_dict(ProvidersOf(before))
    /\ TargetKey \notin DOMAIN ProvidersOf(before).v

(* C8: in uninstall and in the migration script, when the config file is   *)
(* absent, or the target key is absent from provider, or the answer to the *)
(* confirmation is anything but an affirmative, the run exits with code 0  *)
(* and never opens the file for writing: the file is what it was.          *)
C8_NoOpExits ==
    (/\ Removal
     /\ \/ before = Absent
        \/ TargetAbsent
        \/ answer.t = "str" /\ ~Affirmative(answer.v))
    => exitCode = 0 /\ ~opened /\ disk = before

C8_Witness ==
    /\ tool = "migrate"
    /\ answer = Str(<<"y", "e", "s">>)
    /\ OLD_KEY \in DOMAIN ProvidersOf(before).v
    /\ exitCode = 0 /\ ~opened /\ disk = before

(* C9: a non-dry-run install always reaches the write of the config file,  *)
(* whatever the fetch outcome and whatever the file state; the run exits   *)
(* non-zero only when the write fails or the file cannot be read for a     *)
(* reason other than invalid JSON.                                         *)
C9_AlwaysReachesWrite ==
    (tool = "install" /\ ~dry_run) =>
        /\ opened \/ outcome = "read_error"
        /\ exitCode # 0 => outcome \in {"write_failed", "read_error"}

(* C10: a second install with the same resolved model map persists the     *)
(* document the first one persisted.                                       *)
C10_Idempotent ==
    (InstallPersisted /\ prevInstallMap # None /\ prevInstallMap = id_to_name) =>
        disk = before

C10_Witness ==
    /\ InstallPersisted /\ prevInstallMap # None /\ prevInstallMap = id_to_name
    /\ <<"old/model", ":free">> \in DOMAIN EntryOf(before).v[K_MODELS].v
    /\ <<"timeout">> \in DOMAIN EntryOf(before).v[K_OPTIONS].v
    /\ disk = before

====
